---- MODULE Spec2Model ----
(***************************************************************************)
(* obvious3 `find`: the streaming filter pipeline of src/find.rs and the   *)
(* record / header types of src/main.rs.                                   *)
(*                                                                         *)
(* Bytes are modelled as tokens: the JSON text of one value is one token   *)
(* and the newline is one token, so a line is two tokens and a line can be *)
(* seen half written.  A write of the writer's BufWriter reaches standard  *)
(* output whole or, when the output is closed, not at all.                 *)
(***************************************************************************)
EXTENDS Integers, Sequences, FiniteSets, TLC

(* ------------------------------ bounds --------------------------------- *)
\* longest listing / record input
MaxRecords == 3
\* largest --concurrency value drawn (0 is accepted by the command too)
MaxConcurrency == 2
\* capacity of the mpsc channel, scaled down from the program's 100
ChannelCapacity == 1
\* capacity of the std BufWriter in tokens, scaled down from 8192 bytes
BufCapacity == 3
\* largest time stamp / size drawn
MaxTime == 2

(* ------------------------------ values --------------------------------- *)
None == [none |-> TRUE]
Some(v) == [some |-> v]
IsSome(o) == "some" \in DOMAIN o

NL == [t |-> "nl"]
Garbage == [t |-> "garbage"]

\* what Url::parse accepts among the root arguments drawn
UrlStrings == {"mem://b/p", "foo://x"}
\* the URL schemes object_store::parse_url recognises
StoreUrls == {"mem://b/p", "file:///data"}
\* the local paths that exist, with the URL of their canonical form
LocalPaths == [data |-> "file:///data"]

RootArgs == {"mem://b/p", "foo://x", "data", "nodir"}

\* Url::parse: a URL comes out in its normal form (the scheme in lower
\* case), text that is no URL is an error
UrlParse(s) ==
  IF s \in UrlStrings \cup StoreUrls THEN Some(s)
  ELSE IF s = "MEM://b/p" THEN Some("mem://b/p")
  ELSE None

\* PathPart::from: the characters a path segment may not hold are percent
\* encoded, '%' among them
EncodePart(part) ==
  CASE part = "b%" -> "b%25"
    [] part = "b%25" -> "b%2525"
    [] OTHER -> part

\* Path::from(String): split on the delimiter, encode each segment, drop
\* the empty ones
RECURSIVE PathFrom(_)
PathFrom(segs) ==
  IF segs = <<>> THEN <<>>
  ELSE IF Head(segs) = "" THEN PathFrom(Tail(segs))
       ELSE <<EncodePart(Head(segs))>> \o PathFrom(Tail(segs))

\* Path::filename(): the last segment, if any
Filename(path) == IF path = <<>> THEN None ELSE Some(path[Len(path)])

\* a conversion that leaves the e_tag out
ExportFromMetaNoEtag(meta) ==
  [location |-> meta.location,
   last_modified |-> meta.last_modified,
   size |-> meta.size,
   e_tag |-> None,
   version |-> meta.version]

\* impl From<ObjectMeta> for ObjectExport
ExportFromMeta(meta) ==
  [location |-> meta.location,
   last_modified |-> meta.last_modified,
   size |-> meta.size,
   e_tag |-> meta.e_tag,
   version |-> meta.version]

\* impl From<ObjectExport> for ObjectMeta
MetaFromExport(export) ==
  [location |-> PathFrom(export.location),
   last_modified |-> export.last_modified,
   size |-> export.size,
   e_tag |-> export.e_tag,
   version |-> export.version]

\* serde_json::to_string(&obj) of an ObjectExport: one token
SerializeExport(obj) == [t |-> "json", v |-> obj]

\* serde_json::to_string(&preamble): the internally tagged object
\* the header as serde writes an enum that has no tag attribute
SerializePreambleUntagged(p) ==
  [t |-> "json", v |-> [Obvious3_0 |-> [root |-> p.root]]]

SerializePreamble(p) ==
  [t |-> "json", v |-> [file_type |-> "Obvious3_0", root |-> p.root]]

\* a decoder that takes a header whatever its tag says
DecodePreambleAnyTag(line) ==
  IF line.t = "json"
     /\ "file_type" \in DOMAIN line.v
     /\ "root" \in DOMAIN line.v
     /\ IsSome(UrlParse(line.v.root))
  THEN Some([root |-> UrlParse(line.v.root).some])
  ELSE None

\* serde_json::from_str::<Preamble>: Err on text that is no JSON, on a
\* missing or unknown tag, on a missing root or a root that is no URL
DecodePreamble(line) ==
  IF line.t = "json"
     /\ "file_type" \in DOMAIN line.v
     /\ line.v.file_type = "Obvious3_0"
     /\ "root" \in DOMAIN line.v
     /\ IsSome(UrlParse(line.v.root))
  THEN Some([root |-> UrlParse(line.v.root).some])
  ELSE None

\* serde_json::from_str::<ObjectExport>: the three plain fields are
\* required, the two Option fields default to None
DecodeExport(line) ==
  IF line.t = "json"
     /\ {"location", "last_modified", "size"} \subseteq DOMAIN line.v
  THEN Some([location |-> line.v.location,
             last_modified |-> line.v.last_modified,
             size |-> line.v.size,
             e_tag |-> IF "e_tag" \in DOMAIN line.v THEN line.v.e_tag ELSE None,
             version |-> IF "version" \in DOMAIN line.v THEN line.v.version ELSE None])
  ELSE None

InvalidPatterns == {"("}

\* a pattern taken as it is, its syntax looked at only when it is used
RegexNewUnchecked(s) == Some(s)

\* regex::Regex::new: the patterns drawn are a literal segment or "("
RegexNew(s) == IF s \in InvalidPatterns THEN None ELSE Some(s)

\* Regex::is_match on a path given as its segments
IsMatch(reg, segs) == \E i \in 1..Len(segs) : segs[i] = reg

(* ------------------------- the std BufWriter --------------------------- *)
\* BufWriter::flush_buf: hand the buffered tokens to standard output; the
\* buffer keeps them when the write fails
FlushBuf(buf, open) ==
  IF buf = <<>> THEN [ok |-> TRUE, buf |-> <<>>, out |-> <<>>]
  ELSE IF open THEN [ok |-> TRUE, buf |-> <<>>, out |-> buf]
       ELSE [ok |-> FALSE, buf |-> buf, out |-> <<>>]

\* a write_all that fills the spare room with the head of the data, flushes,
\* and keeps the rest: a line can be cut by a flush
BufWriteAllSplit(buf, data, open) ==
  LET spare == BufCapacity - Len(buf) IN
  IF Len(data) <= spare
  THEN [ok |-> TRUE, buf |-> buf \o data, out |-> <<>>]
  ELSE LET f == FlushBuf(buf \o SubSeq(data, 1, spare), open)
       IN IF f.ok
          THEN [ok |-> TRUE, buf |-> SubSeq(data, spare + 1, Len(data)), out |-> f.out]
          ELSE [ok |-> FALSE, buf |-> buf, out |-> <<>>]

\* BufWriter::write_all (and write, for the one-byte newline): data smaller
\* than the spare room is copied; otherwise the buffer is flushed first when
\* the data does not fit, and data as large as the buffer goes out directly
BufWriteAll(buf, data, open) ==
  IF Len(data) < BufCapacity - Len(buf)
  THEN [ok |-> TRUE, buf |-> buf \o data, out |-> <<>>]
  ELSE LET f == IF Len(data) > BufCapacity - Len(buf)
                THEN FlushBuf(buf, open)
                ELSE [ok |-> TRUE, buf |-> buf, out |-> <<>>]
       IN IF ~f.ok THEN f
          ELSE IF Len(data) >= BufCapacity
               THEN IF open
                    THEN [ok |-> TRUE, buf |-> f.buf, out |-> f.out \o data]
                    ELSE [ok |-> FALSE, buf |-> f.buf, out |-> f.out]
               ELSE [ok |-> TRUE, buf |-> f.buf \o data, out |-> f.out]

\* the line the writer task builds: the JSON text with '\n' pushed on it
RecordLine(obj) == <<SerializeExport(obj), NL>>

(* --------------------------- the predicate ----------------------------- *)
\* the body of print_matches up to the decision: `valid` starts true and
\* each configured criterion is and-ed into it; now1 and now2 are the two
\* readings of Utc::now
Valid(f, meta, now1, now2) ==
  LET v0 == TRUE
      v1 == IF IsSome(f.path_match)
            THEN v0 /\ IsMatch(f.path_match.some, meta.location) ELSE v0
      fname == Filename(meta.location)
      v2 == IF IsSome(f.basename_match)
            THEN v1 /\ IsMatch(f.basename_match.some,
                               IF IsSome(fname) THEN <<fname.some>> ELSE <<>>)
            ELSE v1
      v3 == IF IsSome(f.min_size) THEN v2 /\ meta.size >= f.min_size.some ELSE v2
      v4 == IF IsSome(f.max_size) THEN v3 /\ meta.size <= f.max_size.some ELSE v3
      v5 == IF IsSome(f.after_absolute)
            THEN v4 /\ meta.last_modified >= f.after_absolute.some ELSE v4
      v6 == IF IsSome(f.before_absolute)
            THEN v5 /\ meta.last_modified <= f.before_absolute.some ELSE v5
      v7 == IF IsSome(f.after)
            THEN v6 /\ meta.last_modified >= now1 - f.after.some ELSE v6
      v8 == IF IsSome(f.before)
            THEN v7 /\ meta.last_modified <= now2 - f.before.some ELSE v7
  IN v8

\* a decision that forgets `invert`
ForwardsIgnoresInvert(f, meta, now1, now2) == Valid(f, meta, now1, now2)

\* `if valid == !self.invert { writer.write(..) }`
Forwards(f, meta, now1, now2) == Valid(f, meta, now1, now2) = ~f.invert

(* ------------------------------ inputs --------------------------------- *)
Export1 == [location |-> <<"a", "x">>, last_modified |-> 1, size |-> 1,
            e_tag |-> None, version |-> None]
Export2 == [location |-> <<"b%">>, last_modified |-> 2, size |-> 2,
            e_tag |-> Some("t"), version |-> None]
\* one step of the source: a record, or a failure (a listing error, a line
\* that is no record)
Bad == [bad |-> TRUE]
ItemSet == {Export1, Export2, Bad}

RECURSIVE SeqsUpTo(_, _)
SeqsUpTo(S, n) ==
  IF n = 0 THEN {<<>>}
  ELSE LET shorter == SeqsUpTo(S, n - 1)
       IN shorter \cup {Append(s, x) : s \in {q \in shorter : Len(q) = n - 1}, x \in S}

NoFilter ==
  [path_match |-> None, basename_match |-> None, invert |-> FALSE,
   min_size |-> None, max_size |-> None,
   after_absolute |-> None, before_absolute |-> None,
   after |-> None, before |-> None]

\* the filter configurations of the pipeline runs
RunFilters ==
  {NoFilter,
   [NoFilter EXCEPT !.path_match = Some("a"), !.max_size = Some(1)],
   [NoFilter EXCEPT !.path_match = Some("a"), !.max_size = Some(1), !.invert = TRUE],
   [NoFilter EXCEPT !.path_match = Some("(")],
   [NoFilter EXCEPT !.basename_match = Some("(")]}

GoodHeader == [t |-> "json", v |-> [file_type |-> "Obvious3_0", root |-> "mem://b/p"]]
\* the same header with its root not in normal form
OddHeader == [t |-> "json", v |-> [file_type |-> "Obvious3_0", root |-> "MEM://b/p"]]
HeaderLines ==
  {<<GoodHeader>>,
   <<OddHeader>>,
   <<[t |-> "json", v |-> [file_type |-> "Obvious4_0", root |-> "mem://b/p"]]>>,
   <<Garbage>>,
   <<>>}

InputLine(item) == IF item = Bad THEN Garbage ELSE SerializeExport(item)
\* the listing yields its records in the native form, with the same fields
ListItem(item) == IF item = Bad THEN Bad ELSE item

(* ------------------------------- state --------------------------------- *)
VARIABLES
  root,         \* Find::root, Option<String>
  filter,       \* the other fields of Find
  concurrency,  \* Args::concurrency
  stdin,        \* the lines standard input holds
  listing,      \* what the backend listing yields, item by item
  stdinPos,     \* lines read from standard input so far
  listPos,      \* items pulled from the backend listing so far
  io,           \* the kinds of I/O done so far
  pc,           \* where main / Find::run stands
  result,       \* the Result of Find::run
  exitCode,     \* the exit code of the process, -1 while it runs
  preamble,     \* the Preamble resolved, Option
  futures,      \* the print_matches futures in flight
  waiters,      \* the futures waiting for a slot of the channel, in order
  streamDone,   \* the stream has ended
  queue,        \* the mpsc channel
  rxDropped,    \* the receiver is gone
  wpc,          \* where the writer task stands
  inhand,       \* the ObjectExport the writer task has received
  buffer,       \* the BufWriter's buffer
  stdout,       \* the tokens delivered to standard output
  outputOpen,   \* the consumer still reads standard output
  sent,         \* history: the records whose send succeeded, in order
  evalLog,      \* history: the evaluations made
  writeFailed,  \* history: a write_all of the writer task failed
  lateAttempt   \* history: what was tried on standard output after that

vars == <<root, filter, concurrency, stdin, listing, stdinPos, listPos, io, pc,
          result, exitCode, preamble, futures, waiters, streamDone, queue,
          rxDropped, wpc, inhand, buffer, stdout, outputOpen, sent, evalLog,
          writeFailed, lateAttempt>>

cfgVars == <<root, filter, concurrency, stdin, listing>>
sinkVars == <<queue, rxDropped, wpc, inhand, buffer, stdout, sent, writeFailed,
              lateAttempt>>
runVars == <<stdinPos, listPos, io, pc, result, exitCode, preamble, futures,
             waiters, streamDone, evalLog>>

InitRest ==
  /\ stdinPos = 0 /\ listPos = 0 /\ io = {}
  /\ pc = "start" /\ result = "Running" /\ exitCode = -1
  /\ preamble = None
  /\ futures = {} /\ waiters = <<>> /\ streamDone = FALSE
  /\ queue = <<>> /\ rxDropped = FALSE /\ wpc = "none" /\ inhand = None
  /\ buffer = <<>> /\ stdout = <<>> /\ outputOpen = TRUE
  /\ sent = <<>> /\ evalLog = {} /\ writeFailed = FALSE
  /\ lateAttempt = <<>>

Init ==
  /\ root \in {None} \cup {Some(r) : r \in RootArgs}
  /\ filter \in RunFilters
  /\ concurrency \in 0..MaxConcurrency
  /\ \E items \in SeqsUpTo(ItemSet, MaxRecords), h \in HeaderLines :
       /\ IsSome(root) => h = <<GoodHeader>>
       /\ stdin = h \o [i \in 1..Len(items) |-> InputLine(items[i])]
       /\ listing = [i \in 1..Len(items) |-> ListItem(items[i])]
  /\ InitRest

(* ------------------------------ startup -------------------------------- *)
\* Find::base_url: no root, a root that parses as a URL, or a local path
\* that canonicalize resolves or not
BaseUrl(r) ==
  IF ~IsSome(r) THEN [ok |-> TRUE, url |-> None, fs |-> FALSE]
  ELSE IF IsSome(UrlParse(r.some))
       THEN [ok |-> TRUE, url |-> UrlParse(r.some), fs |-> FALSE]
  ELSE IF r.some \in DOMAIN LocalPaths
       THEN [ok |-> TRUE, url |-> Some(LocalPaths[r.some]), fs |-> TRUE]
       ELSE [ok |-> FALSE, url |-> None, fs |-> TRUE]

\* an error that is kept as the result while the run goes on
ReturnKeepsGoing(res) ==
  /\ result' = res
  /\ pc' = IF res = "Ok" \/ pc # "stream" THEN "returned" ELSE pc
  /\ futures' = IF res = "Ok" \/ pc # "stream" THEN {} ELSE futures
  /\ waiters' = IF res = "Ok" \/ pc # "stream" THEN <<>> ELSE waiters

\* Find::run returns: the futures and the stream are dropped with it
Return(res) ==
  /\ result' = res
  /\ pc' = "returned"
  /\ futures' = {}
  /\ waiters' = <<>>

\* Find::run, the two Regex::new(..).transpose()?
CompileRegex ==
  /\ pc = "start"
  /\ IF \/ IsSome(filter.path_match) /\ ~IsSome(RegexNew(filter.path_match.some))
        \/ IsSome(filter.basename_match) /\ ~IsSome(RegexNew(filter.basename_match.some))
     THEN Return("InvalidPattern")
     ELSE /\ pc' = "preamble"
          /\ UNCHANGED <<result, futures, waiters>>
  /\ UNCHANGED <<stdinPos, listPos, io, exitCode, preamble, streamDone, evalLog,
                 outputOpen>>
  /\ UNCHANGED cfgVars
  /\ UNCHANGED sinkVars

\* Find::preamble, called by Find::run
ResolvePreamble ==
  /\ pc = "preamble"
  /\ LET b == BaseUrl(root) IN
     IF ~b.ok
     THEN /\ Return("InvalidRoot")
          /\ io' = io \cup {"fs"}
          /\ UNCHANGED <<stdinPos, preamble>>
     ELSE IF IsSome(b.url)
     THEN /\ preamble' = Some([root |-> b.url.some])
          /\ io' = IF b.fs THEN io \cup {"fs"} ELSE io
          /\ pc' = "writer"
          /\ UNCHANGED <<stdinPos, result, futures, waiters>>
     ELSE \* read_line, then serde_json::from_str of what was read
          LET have == Len(stdin) > 0
              p == IF have THEN DecodePreamble(stdin[1]) ELSE None
          IN /\ io' = io \cup {"stdin"}
             /\ stdinPos' = IF have THEN 1 ELSE 0
             /\ IF IsSome(p)
                THEN /\ preamble' = p
                     /\ pc' = "writer"
                     /\ UNCHANGED <<result, futures, waiters>>
                ELSE /\ Return("MissingOrMalformedHeader")
                     /\ UNCHANGED preamble
  /\ UNCHANGED <<listPos, exitCode, streamDone, evalLog, outputOpen>>
  /\ UNCHANGED cfgVars
  /\ UNCHANGED sinkVars

\* StdoutWriter::start: the header and its newline go to the buffer, the
\* writer task is spawned
StartWriter ==
  /\ pc = "writer"
  /\ LET w1 == BufWriteAll(buffer, <<SerializePreamble(preamble.some)>>, outputOpen)
         w2 == BufWriteAll(w1.buf, <<NL>>, outputOpen)
     IN IF w1.ok /\ w2.ok
        THEN /\ buffer' = w2.buf
             /\ stdout' = stdout \o w1.out \o w2.out
             /\ wpc' = "recv"
             /\ pc' = "resolve"
             /\ UNCHANGED <<result, futures, waiters>>
        ELSE \* `?`: the buffer is dropped with the error
             /\ buffer' = <<>>
             /\ stdout' = stdout \o w1.out
             /\ UNCHANGED wpc
             /\ Return("IoError")
  /\ UNCHANGED <<stdinPos, listPos, io, exitCode, preamble, streamDone, evalLog,
                 outputOpen, queue, rxDropped, inhand, sent, writeFailed,
                 lateAttempt>>
  /\ UNCHANGED cfgVars

\* Find::run, `match self.base_url()?` and object_store::parse_url(&url)?
OpenSource ==
  /\ pc = "resolve"
  /\ LET b == BaseUrl(root) IN
     /\ io' = IF b.fs THEN io \cup {"fs"} ELSE io
     /\ IF IsSome(b.url) /\ b.url.some \notin StoreUrls
        THEN Return("StoreError")
        ELSE /\ pc' = "stream"
             /\ UNCHANGED <<result, futures, waiters>>
  /\ UNCHANGED <<stdinPos, listPos, exitCode, preamble, streamDone, evalLog,
                 outputOpen>>
  /\ UNCHANGED cfgVars
  /\ UNCHANGED sinkVars

(* ------------------------------ the runner ----------------------------- *)
\* a limit check that lets one future too many in
UnderLimitOffByOne == concurrency = 0 \/ concurrency >= Cardinality(futures)

\* try_for_each_concurrent polls the stream only while the limit exceeds
\* the number of futures; a limit of zero is no limit
UnderLimit == concurrency = 0 \/ concurrency > Cardinality(futures)

\* how far the source in use was read, and how much it holds
SourcePos == IF IsSome(root) THEN listPos ELSE stdinPos
SourceLen == IF IsSome(root) THEN Len(listing) ELSE Len(stdin)

\* a source that puts an empty record in the place of a line it cannot decode
SourceNextLenient ==
  IF IsSome(root)
  THEN LET item == listing[listPos + 1]
       IN IF item = Bad THEN [err |-> "SourceError"] ELSE [ok |-> item]
  ELSE LET d == DecodeExport(stdin[stdinPos + 1])
       IN IF IsSome(d) THEN [ok |-> MetaFromExport(d.some)]
          ELSE [ok |-> [location |-> <<>>, last_modified |-> 0, size |-> 0,
                        e_tag |-> None, version |-> None]]

\* a source that decodes lines of standard input whether a root is given
\* or not
SourceNextFromStdin ==
  LET d == DecodeExport(stdin[SourcePos + 1])
  IN IF IsSome(d) THEN [ok |-> MetaFromExport(d.some)]
     ELSE [err |-> "DecodeError"]

\* the next item of the source: the backend listing with a root, the lines
\* of standard input decoded by read_stdin without one
SourceNext ==
  IF IsSome(root)
  THEN LET item == listing[listPos + 1]
       IN IF item = Bad THEN [err |-> "SourceError"] ELSE [ok |-> item]
  ELSE LET d == DecodeExport(stdin[stdinPos + 1])
       IN IF IsSome(d) THEN [ok |-> MetaFromExport(d.some)]
          ELSE [err |-> "DecodeError"]

\* one poll of the stream by try_for_each_concurrent: a record becomes a
\* new print_matches future, the end is noted, an error ends the run
TakeRecord ==
  /\ pc = "stream"
  /\ ~streamDone
  /\ UnderLimit
  /\ io' = io \cup {IF IsSome(root) THEN "backend" ELSE "stdin"}
  /\ IF SourcePos = SourceLen
     THEN /\ streamDone' = TRUE
          /\ UNCHANGED <<stdinPos, listPos, pc, result, futures, waiters>>
     ELSE /\ IF IsSome(root)
             THEN listPos' = listPos + 1 /\ UNCHANGED stdinPos
             ELSE stdinPos' = stdinPos + 1 /\ UNCHANGED listPos
          /\ UNCHANGED streamDone
          /\ LET n == SourceNext IN
             IF "err" \in DOMAIN n
             THEN Return(n.err)
             ELSE /\ futures' = futures \cup
                       {[id |-> SourcePos + 1, meta |-> n.ok, st |-> "new"]}
                  /\ UNCHANGED <<pc, result, waiters>>
  /\ UNCHANGED <<exitCode, preamble, evalLog, outputOpen>>
  /\ UNCHANGED cfgVars
  /\ UNCHANGED sinkVars

\* a send on a channel without a capacity: it never waits
SendUnbounded(u) ==
  IF rxDropped
  THEN /\ result' = "ChannelClosed" /\ pc' = "returned"
       /\ futures' = {} /\ waiters' = <<>>
       /\ UNCHANGED <<queue, sent>>
  ELSE /\ queue' = Append(queue, ExportFromMeta(u.meta))
       /\ sent' = Append(sent, ExportFromMeta(u.meta))
       /\ futures' = futures \ {u}
       /\ waiters' = IF waiters = <<>> THEN <<>> ELSE Tail(waiters)
       /\ UNCHANGED <<pc, result>>

\* a send that does not notice that the receiver is gone
SendIgnoresClosed(u) ==
  IF /\ Len(queue) < ChannelCapacity
     /\ (waiters = <<>> \/ Head(waiters) = u.id)
  THEN /\ queue' = Append(queue, ExportFromMeta(u.meta))
       /\ sent' = Append(sent, ExportFromMeta(u.meta))
       /\ futures' = futures \ {u}
       /\ waiters' = IF waiters = <<>> THEN <<>> ELSE Tail(waiters)
       /\ UNCHANGED <<pc, result>>
  ELSE /\ futures' = (futures \ {u}) \cup {[u EXCEPT !.st = "blocked"]}
       /\ waiters' = IF u.st = "blocked" THEN waiters ELSE Append(waiters, u.id)
       /\ UNCHANGED <<pc, result, queue, sent>>

\* StdoutWriter::write, `self.tx.send(meta).await?`, polled for future u:
\* an error once the receiver is gone, a slot of the channel when one is
\* free and no earlier sender waits for it, and a wait otherwise
Send(u) ==
  IF rxDropped
  THEN /\ Return("ChannelClosed")
       /\ UNCHANGED <<queue, sent>>
  ELSE IF /\ Len(queue) < ChannelCapacity
          /\ (waiters = <<>> \/ Head(waiters) = u.id)
  THEN /\ queue' = Append(queue, ExportFromMeta(u.meta))
       /\ sent' = Append(sent, ExportFromMeta(u.meta))
       /\ futures' = futures \ {u}
       /\ waiters' = IF waiters = <<>> THEN <<>> ELSE Tail(waiters)
       /\ UNCHANGED <<pc, result>>
  ELSE /\ futures' = (futures \ {u}) \cup {[u EXCEPT !.st = "blocked"]}
       /\ waiters' = Append(waiters, u.id)
       /\ UNCHANGED <<pc, result, queue, sent>>

\* a future that prints the line itself instead of sending the record
PollNewPrints(u) ==
  /\ pc = "stream"
  /\ u \in futures
  /\ u.st = "new"
  /\ LET fwd == Forwards(filter, u.meta, 0, 0) IN
       /\ evalLog' = evalLog \cup
            {[id |-> u.id, meta |-> u.meta, now1 |-> 0, now2 |-> 0, fwd |-> fwd]}
       /\ futures' = futures \ {u}
       /\ stdout' = IF fwd /\ outputOpen
                    THEN stdout \o RecordLine(ExportFromMeta(u.meta))
                    ELSE stdout
       /\ sent' = IF fwd THEN Append(sent, ExportFromMeta(u.meta)) ELSE sent
       /\ UNCHANGED <<pc, result, waiters, queue>>
  /\ UNCHANGED <<stdinPos, listPos, io, exitCode, preamble, streamDone, outputOpen>>
  /\ UNCHANGED <<rxDropped, wpc, inhand, buffer, writeFailed, lateAttempt>>
  /\ UNCHANGED cfgVars

\* the first poll of a print_matches future: the decision, then the send
PollNew(u) ==
  /\ pc = "stream"
  /\ u \in futures
  /\ u.st = "new"
  /\ \E now1 \in IF IsSome(filter.after) THEN 0..MaxTime ELSE {0},
        now2 \in IF IsSome(filter.before) THEN 0..MaxTime ELSE {0} :
       LET fwd == Forwards(filter, u.meta, now1, now2) IN
       /\ evalLog' = evalLog \cup
            {[id |-> u.id, meta |-> u.meta, now1 |-> now1, now2 |-> now2, fwd |-> fwd]}
       /\ IF fwd
          THEN Send(u)
          ELSE /\ futures' = futures \ {u}
               /\ UNCHANGED <<pc, result, waiters, queue, sent>>
  /\ UNCHANGED <<stdinPos, listPos, io, exitCode, preamble, streamDone, outputOpen>>
  /\ UNCHANGED <<rxDropped, wpc, inhand, buffer, stdout, writeFailed, lateAttempt>>
  /\ UNCHANGED cfgVars

\* a later poll of a future that waits in send: it was woken because its
\* turn for a free slot came or because the receiver is gone
PollBlocked(u) ==
  /\ pc = "stream"
  /\ u \in futures
  /\ u.st = "blocked"
  /\ rxDropped \/ (Len(queue) < ChannelCapacity /\ Head(waiters) = u.id)
  /\ Send(u)
  /\ UNCHANGED <<stdinPos, listPos, io, exitCode, preamble, streamDone, evalLog,
                 outputOpen>>
  /\ UNCHANGED <<rxDropped, wpc, inhand, buffer, stdout, writeFailed, lateAttempt>>
  /\ UNCHANGED cfgVars

\* try_for_each_concurrent is Ready(Ok) when the stream has ended and no
\* future is left; Find::run returns Ok(())
RunOk ==
  /\ pc = "stream"
  /\ streamDone
  /\ futures = {}
  /\ Return("Ok")
  /\ UNCHANGED <<stdinPos, listPos, io, exitCode, preamble, streamDone, evalLog,
                 outputOpen>>
  /\ UNCHANGED cfgVars
  /\ UNCHANGED sinkVars

(* ---------------------------- the writer task -------------------------- *)
\* the sender lives in Find::run and is dropped when run returns
TxDropped == pc \in {"returned", "exited"}

\* a writer whose buffer does not flush when it is dropped
TaskDroppedNoFlush(buf) ==
  /\ rxDropped' = TRUE
  /\ queue' = <<>>
  /\ inhand' = None
  /\ buffer' = <<>>
  /\ stdout' = stdout
  /\ wpc' = "done"

\* the task's future is dropped: the receiver goes, with what the channel
\* still holds, and the BufWriter's Drop flushes, ignoring the outcome
TaskDropped(buf) ==
  /\ rxDropped' = TRUE
  /\ queue' = <<>>
  /\ inhand' = None
  /\ buffer' = <<>>
  /\ stdout' = stdout \o FlushBuf(buf, outputOpen).out
  /\ wpc' = "done"

\* `rx.recv().await` yields an object
WriterRecv ==
  /\ wpc = "recv"
  /\ queue # <<>>
  /\ inhand' = Some(Head(queue))
  /\ queue' = Tail(queue)
  /\ wpc' = "write"
  /\ UNCHANGED <<rxDropped, buffer, stdout, sent, writeFailed, lateAttempt,
                 outputOpen>>
  /\ UNCHANGED runVars
  /\ UNCHANGED cfgVars

\* `rx.recv().await` yields None: the channel is empty and the sender gone
WriterEnd ==
  /\ wpc = "recv"
  /\ queue = <<>>
  /\ TxDropped
  /\ TaskDropped(buffer)
  /\ UNCHANGED <<sent, writeFailed, lateAttempt, outputOpen>>
  /\ UNCHANGED runVars
  /\ UNCHANGED cfgVars

\* a loop that goes on to the next record after a failed write
WriterWriteNoBreak ==
  /\ wpc = "write"
  /\ LET w == BufWriteAll(buffer, RecordLine(inhand.some), outputOpen) IN
     /\ buffer' = w.buf
     /\ stdout' = stdout \o w.out
     /\ inhand' = None
     /\ wpc' = "recv"
     /\ writeFailed' = (writeFailed \/ ~w.ok)
     /\ UNCHANGED <<queue, rxDropped, lateAttempt>>
  /\ UNCHANGED <<sent, outputOpen>>
  /\ UNCHANGED runVars
  /\ UNCHANGED cfgVars

\* the body of the loop: the line is written to the buffer; on an error
\* the loop breaks and the task ends
WriterWrite ==
  /\ wpc = "write"
  /\ LET w == BufWriteAll(buffer, RecordLine(inhand.some), outputOpen) IN
     IF w.ok
     THEN /\ buffer' = w.buf
          /\ stdout' = stdout \o w.out
          /\ inhand' = None
          /\ wpc' = "recv"
          /\ UNCHANGED <<queue, rxDropped, writeFailed, lateAttempt>>
     ELSE /\ writeFailed' = TRUE
          /\ lateAttempt' = w.buf
          /\ TaskDropped(w.buf)
  /\ UNCHANGED <<sent, outputOpen>>
  /\ UNCHANGED runVars
  /\ UNCHANGED cfgVars

(* ----------------------------- environment ----------------------------- *)
\* the consumer of standard output goes away
CloseOutput ==
  /\ outputOpen
  /\ pc # "exited"
  /\ outputOpen' = FALSE
  /\ UNCHANGED runVars
  /\ UNCHANGED cfgVars
  /\ UNCHANGED sinkVars

(* -------------------------------- main --------------------------------- *)
\* main returns what run returned and the runtime is dropped with it: a
\* task that stands at an await is dropped there, never polled again
Exit ==
  /\ pc = "returned"
  /\ wpc # "write"
  /\ pc' = "exited"
  /\ exitCode' = IF result = "Ok" THEN 0 ELSE 1
  /\ IF wpc = "recv"
     THEN TaskDropped(buffer)
     ELSE UNCHANGED <<rxDropped, queue, inhand, buffer, stdout, wpc>>
  /\ UNCHANGED <<stdinPos, listPos, io, result, preamble, futures, waiters,
                 streamDone, evalLog, sent, writeFailed, lateAttempt,
                 outputOpen>>
  /\ UNCHANGED cfgVars

Next ==
  \/ CompileRegex
  \/ ResolvePreamble
  \/ StartWriter
  \/ OpenSource
  \/ TakeRecord
  \/ \E u \in futures : PollNew(u)
  \/ \E u \in futures : PollBlocked(u)
  \/ RunOk
  \/ WriterRecv
  \/ WriterEnd
  \/ WriterWrite
  \/ CloseOutput
  \/ Exit

Spec == Init /\ [][Next]_vars

\* the runtime polls every task that can make a step, a write to standard
\* output returns, with success while the consumer reads and with an error
\* once it is gone, and main returns; the consumer is free to go or to stay
Fairness ==
  /\ WF_vars(CompileRegex)
  /\ WF_vars(ResolvePreamble)
  /\ WF_vars(StartWriter)
  /\ WF_vars(OpenSource)
  /\ WF_vars(TakeRecord)
  /\ WF_vars(\E u \in futures : PollNew(u))
  /\ WF_vars(\E u \in futures : PollBlocked(u))
  /\ WF_vars(RunOk)
  /\ WF_vars(WriterRecv)
  /\ WF_vars(WriterEnd)
  /\ WF_vars(WriterWrite)
  /\ WF_vars(Exit)

\* the runs of Init, without the root and the header that differ from
\* another one in their spelling only
InitLive ==
  /\ root \in {None} \cup {Some(r) : r \in RootArgs \ {"data"}}
  /\ filter \in RunFilters \ {[NoFilter EXCEPT !.path_match = Some("a"),
                                                !.max_size = Some(1)]}
  /\ concurrency \in 0..MaxConcurrency
  /\ \E items \in SeqsUpTo(ItemSet, MaxRecords), h \in HeaderLines \ {<<OddHeader>>} :
       /\ IsSome(root) => h = <<GoodHeader>>
       /\ stdin = h \o [i \in 1..Len(items) |-> InputLine(items[i])]
       /\ listing = [i \in 1..Len(items) |-> ListItem(items[i])]
  /\ InitRest

FairSpec == InitLive /\ [][Next]_vars /\ Fairness

(* ------------------- the predicate on its own inputs ------------------- *)
\* every combination of criteria, on a one-record input in decode mode
Opt(S) == {None} \cup {Some(x) : x \in S}
AllFilters ==
  [path_match : Opt({"a"}), basename_match : Opt({"x"}), invert : BOOLEAN,
   min_size : Opt({2}), max_size : Opt({1}),
   after_absolute : Opt({1}), before_absolute : Opt({1}),
   after : Opt({1}), before : Opt({1})]
PredExports ==
  [location : {<<"a", "x">>, <<"b">>, <<"">>}, last_modified : 0..MaxTime,
   size : 1..2, e_tag : {None}, version : {None}]

InitPredicate ==
  /\ root = None
  /\ filter \in AllFilters
  /\ concurrency = 1
  /\ \E e \in PredExports : stdin = <<GoodHeader, SerializeExport(e)>>
  /\ listing = <<>>
  /\ InitRest

NextPredicate ==
  \/ CompileRegex
  \/ ResolvePreamble
  \/ StartWriter
  \/ OpenSource
  \/ TakeRecord
  \/ \E u \in futures : PollNew(u)
  \/ RunOk
  \/ WriterRecv
  \/ WriterEnd
  \/ WriterWrite
  \/ Exit

SpecPredicate == InitPredicate /\ [][NextPredicate]_vars

(* ------------------ one record through the conversions ----------------- *)
\* records in every combination of their five fields; the locations are a
\* plain path, paths with an empty segment ("a//x", "/a") and a path with a
\* '%' in a segment
RoundTripLocations == {<<"a", "x">>, <<"a", "", "x">>, <<"", "a">>, <<"b%">>}
RoundTripExports ==
  [location : RoundTripLocations, last_modified : 0..MaxTime, size : {0, 2},
   e_tag : Opt({"t"}), version : Opt({"v"})]
\* a native path has no empty segment
IsNativePath(segs) == \A i \in 1..Len(segs) : segs[i] # ""

\* no filter and one record: taken from the listing in its native form when
\* a root is given, from the input line in its wire form otherwise
InitRoundTrip ==
  /\ root \in {None, Some("mem://b/p")}
  /\ filter = NoFilter
  /\ concurrency = 1
  /\ \E e \in RoundTripExports :
       IF IsSome(root)
       THEN /\ IsNativePath(e.location)
            /\ listing = <<ListItem(e)>>
            /\ stdin = <<GoodHeader>>
       ELSE /\ listing = <<>>
            /\ stdin = <<GoodHeader, InputLine(e)>>
  /\ InitRest

SpecRoundTrip == InitRoundTrip /\ [][NextPredicate]_vars

(* ------------------- a second invocation in a chain -------------------- *)
\* the complete output of a first invocation over listed records: its
\* header line, then one line for each record
OutputOf(url, metas) ==
  <<SerializePreamble([root |-> url])>>
    \o [i \in 1..Len(metas) |-> SerializeExport(ExportFromMeta(metas[i]))]

\* the second invocation has no root and no filter and reads that output
InitChain ==
  /\ root = None
  /\ filter = NoFilter
  /\ concurrency \in 0..MaxConcurrency
  /\ \E url \in StoreUrls, metas \in SeqsUpTo({ListItem(Export1), ListItem(Export2)}, MaxRecords) :
       stdin = OutputOf(url, metas)
  /\ listing = <<>>
  /\ InitRest

\* the consumer of the second invocation keeps reading
NextChain ==
  \/ CompileRegex
  \/ ResolvePreamble
  \/ StartWriter
  \/ OpenSource
  \/ TakeRecord
  \/ \E u \in futures : PollNew(u)
  \/ \E u \in futures : PollBlocked(u)
  \/ RunOk
  \/ WriterRecv
  \/ WriterEnd
  \/ WriterWrite
  \/ Exit

SpecChain == InitChain /\ [][NextChain]_vars

(* ------------------------------ the claims ----------------------------- *)
\* what standard output holds, read as lines
IsObject(tok) == tok.t = "json"
IsHeaderTok(tok) == IsObject(tok) /\ "file_type" \in DOMAIN tok.v
IsRecordTok(tok) == IsObject(tok) /\ "location" \in DOMAIN tok.v
WholeLines(out) ==
  /\ Len(out) % 2 = 0
  /\ \A i \in 1..Len(out) : IF i % 2 = 1 THEN IsObject(out[i]) ELSE out[i] = NL
\* the records of the record lines, in the order written
RECURSIVE RecordsOf(_)
RecordsOf(out) ==
  IF out = <<>> THEN <<>>
  ELSE IF IsRecordTok(Head(out)) THEN <<Head(out).v>> \o RecordsOf(Tail(out))
       ELSE RecordsOf(Tail(out))
Range(s) == {s[i] : i \in 1..Len(s)}

\* C1: once a write of the writer task has failed on a closed output (and
\* the source itself yields no error), the process exits with code 0 and
\* Find::run does not return the closed channel as its error.
C1_BrokenPipeExitsZero ==
  (pc = "exited" /\ writeFailed /\ result \notin {"SourceError", "DecodeError"})
    => (exitCode = 0 /\ result = "Ok")

\* C2: when run has returned Ok and the output is still open at exit, the
\* record lines on standard output are exactly the records whose send
\* succeeded, each once.
C2_ForwardedAllWritten ==
  (pc = "exited" /\ result = "Ok" /\ outputOpen) => RecordsOf(stdout) = sent

C4_HeaderFirstOnce ==
  /\ \A i \in 1..Len(stdout) : IsHeaderTok(stdout[i]) <=> i = 1
  /\ stdout # <<>> => stdout[1] = SerializePreamble(preamble.some)
  /\ (pc = "exited" /\ wpc = "done" /\ outputOpen) => stdout # <<>>

\* C4 witness: a decode-mode run that ended with the header and two record
\* lines on its output.
C4_Witness ==
  /\ pc = "exited" /\ ~IsSome(root)
  /\ Len(stdout) = 6 /\ IsHeaderTok(stdout[1]) /\ IsRecordTok(stdout[3])

\* C5 as stated: the futures in flight never outnumber `concurrency`,
\* whatever value of `concurrency` the command took.
C5_InFlightAtMostConcurrency == Cardinality(futures) <= concurrency

\* C5 amended: with a positive `concurrency` the futures in flight never
\* outnumber it (zero is taken by try_for_each_concurrent as no limit).
C5_InFlightAtMostPositiveConcurrency ==
  concurrency > 0 => Cardinality(futures) <= concurrency

\* C5 witness: the limit is reached, and a further record is there to take.
C5_Witness ==
  /\ concurrency = 2 /\ Cardinality(futures) = 2
  /\ pc = "stream" /\ SourcePos < SourceLen

\* the records taken from the source and bound for the output that have
\* not reached it: held by a future, in the channel, in the writer task's
\* hands, or in the BufWriter
Unwritten ==
  Cardinality(futures) + Len(queue) + (IF IsSome(inhand) THEN 1 ELSE 0)
    + Len(RecordsOf(buffer))

C7_FailFast ==
  [][result \notin {"Running", "Ok"} =>
       /\ listPos' = listPos /\ stdinPos' = stdinPos
       /\ futures' = {} /\ evalLog' = evalLog /\ sent' = sent
       /\ result' = result
       /\ pc' = "exited" => exitCode' # 0]_vars

\* C7 witness: the process has exited on a source error with records of
\* the source left untaken.
C7_Witness ==
  /\ pc = "exited" /\ result = "SourceError" /\ exitCode = 1
  /\ listPos < Len(listing) /\ evalLog # {}

\* C8: in decode mode, when line k of standard input is no record, no line
\* after k is read, run has the decode error as its result once line k is
\* read, the process then exits with a code other than 0, and what was
\* evaluated or written comes from lines before k.
C8_DecodeFailFast ==
  ~IsSome(root) =>
    \A k \in 2..Len(stdin) :
      ~IsSome(DecodeExport(stdin[k])) =>
        /\ stdinPos <= k
        /\ stdinPos = k => result = "DecodeError"
        /\ (stdinPos = k /\ pc = "exited") => exitCode # 0
        /\ \A e \in evalLog : e.id < k
        /\ \A r \in Range(RecordsOf(stdout)) :
             \E j \in 2..(k - 1) :
               r = ExportFromMeta(MetaFromExport(DecodeExport(stdin[j]).some))

\* C8 witness: a three-line record input whose second line is malformed;
\* the first line's record was written, the third line was never read.
C8_Witness ==
  /\ ~IsSome(root) /\ Len(stdin) = 4 /\ stdin[3] = Garbage
  /\ pc = "exited" /\ exitCode = 1 /\ stdinPos = 3
  /\ Len(RecordsOf(stdout)) = 1

\* the conjunction of the criteria configured, an absent one counting as
\* true, the size and time bounds inclusive
Criterion(opt, holds(_)) == ~IsSome(opt) \/ holds(opt.some)
Conjunction(f, meta, now1, now2) ==
  LET base == IF meta.location = <<>> THEN <<>>
              ELSE <<meta.location[Len(meta.location)]>>
      PathOk(reg) == \E i \in DOMAIN meta.location : meta.location[i] = reg
      BaseOk(reg) == \E i \in DOMAIN base : base[i] = reg
      MinOk(n) == meta.size >= n
      MaxOk(n) == meta.size <= n
      AfterAbsOk(t) == meta.last_modified >= t
      BeforeAbsOk(t) == meta.last_modified <= t
      AfterOk(secs) == meta.last_modified >= now1 - secs
      BeforeOk(secs) == meta.last_modified <= now2 - secs
  IN /\ Criterion(f.path_match, PathOk)
     /\ Criterion(f.basename_match, BaseOk)
     /\ Criterion(f.min_size, MinOk)
     /\ Criterion(f.max_size, MaxOk)
     /\ Criterion(f.after_absolute, AfterAbsOk)
     /\ Criterion(f.before_absolute, BeforeAbsOk)
     /\ Criterion(f.after, AfterOk)
     /\ Criterion(f.before, BeforeOk)

HasInvalidPattern ==
  \/ IsSome(filter.path_match) /\ filter.path_match.some \in InvalidPatterns
  \/ IsSome(filter.basename_match) /\ filter.basename_match.some \in InvalidPatterns
HasUnresolvableRoot ==
  IsSome(root) /\ root.some \notin UrlStrings /\ root.some \notin DOMAIN LocalPaths
HasBadHeader ==
  /\ ~IsSome(root)
  /\ \/ stdin = <<>>
     \/ stdin[1].t # "json"
     \/ "file_type" \notin DOMAIN stdin[1].v
     \/ stdin[1].v.file_type # "Obvious3_0"
NothingProcessed ==
  /\ listPos = 0 /\ stdinPos <= 1 /\ "backend" \notin io
  /\ futures = {} /\ evalLog = {} /\ sent = <<>>
  /\ buffer = <<>> /\ stdout = <<>>
  /\ pc = "exited" => exitCode # 0

\* the number of places of a sequence that hold x
Count(seq, x) == Cardinality({i \in DOMAIN seq : seq[i] = x})
\* the records of the lines after the first one
InputRecords == [i \in 1..(Len(stdin) - 1) |-> stdin[i + 1].v]

\* C10: with an invalid regex, an unresolvable root or a missing or
\* malformed header, no record is ever taken, evaluated or written, nothing
\* is output and the exit code is not 0; with an invalid regex no I/O is
\* done at all.
C10_StartupErrorsAbortFirst ==
  /\ (HasInvalidPattern \/ HasUnresolvableRoot \/ HasBadHeader) => NothingProcessed
  /\ HasInvalidPattern => io = {}

\* C10 witness: a run with an invalid regex over a non-empty listing has
\* exited with code 1.
C10_Witness ==
  /\ HasInvalidPattern /\ IsSome(root) /\ Len(listing) > 0
  /\ pc = "exited" /\ exitCode = 1 /\ result = "InvalidPattern"

(* ------------------------- header resolution --------------------------- *)
\* C11: without a root, header resolution reads exactly one line of the
\* input; when that line is absent, is no JSON or carries a tag other than
\* Obvious3_0, the run fails with the header error, the header is never
\* taken as resolved, no further line is read, the writer is never started
\* and nothing is output.
C11_HeaderLineRequired ==
  ~IsSome(root) =>
    /\ pc \in {"start", "preamble"} => stdinPos = 0
    /\ pc \in {"writer", "resolve"} =>
         /\ stdinPos = 1
         /\ preamble = DecodePreamble(stdin[1])
         /\ IsSome(preamble)
    /\ HasBadHeader =>
         /\ pc \notin {"writer", "resolve", "stream"}
         /\ preamble = None
         /\ stdinPos <= 1
         /\ wpc = "none" /\ buffer = <<>> /\ stdout = <<>>
         /\ (pc \in {"returned", "exited"} /\ ~HasInvalidPattern) =>
              result = "MissingOrMalformedHeader"
         /\ pc = "exited" => exitCode # 0

\* C11 witness: an input whose first line carries the tag Obvious4_0 and
\* that has record lines after it; the run has exited with code 1 after
\* reading that one line, with nothing output.
C11_Witness ==
  /\ ~IsSome(root) /\ Len(stdin) > 1
  /\ stdin[1].t = "json" /\ "file_type" \in DOMAIN stdin[1].v
  /\ stdin[1].v.file_type = "Obvious4_0"
  /\ pc = "exited" /\ exitCode = 1 /\ result = "MissingOrMalformedHeader"
  /\ stdinPos = 1 /\ stdout = <<>>

\* C12: a resolved header, written as its output line and decoded again,
\* is the same header; and without a root the header line that is emitted
\* decodes to the header that was read from the input.
C12_HeaderRoundTrip ==
  /\ IsSome(preamble) =>
       DecodePreamble(SerializePreamble(preamble.some)) = preamble
  /\ (~IsSome(root) /\ stdout \o buffer # <<>>) =>
       /\ IsSome(DecodePreamble(stdin[1]))
       /\ DecodePreamble(Head(stdout \o buffer)) = DecodePreamble(stdin[1])

\* C12 witness: the header read has its root not in normal form, so the
\* header line written differs from the line read as text, and the run has
\* exited with the header on the output.
C12_Witness ==
  /\ ~IsSome(root) /\ stdin # <<>> /\ stdin[1] = OddHeader
  /\ pc = "exited" /\ stdout # <<>> /\ stdout[1] # stdin[1]

(* --------------------------- record mapping ---------------------------- *)
\* C13: a record that is converted from the native form to the wire form
\* and back, or from the wire form to the native form and back, is equal
\* to the original in every field: location, last_modified, size, e_tag
\* and version.
C13_RecordRoundTrip ==
  \A i \in 1..Len(sent) :
    IF IsSome(root)
    THEN MetaFromExport(sent[i]) = listing[i]
    ELSE sent[i] = DecodeExport(stdin[i + 1]).some

\* C14: when an invocation with no root and no filter has read the complete
\* output of another invocation and has exited, its own output has the
\* same header and the same records, each as many times as the input has
\* it, whatever their order.
C14_ChainingIdempotence ==
  pc = "exited" =>
    /\ stdout # <<>> /\ stdout[1] = stdin[1]
    /\ \A r \in Range(RecordsOf(stdout)) \cup Range(InputRecords) :
         Count(RecordsOf(stdout), r) = Count(InputRecords, r)

\* the same, for the runs in which as many record lines were written as were
\* read
C14_NothingLostThenSame ==
  (pc = "exited" /\ Len(RecordsOf(stdout)) = Len(InputRecords)) =>
    \A r \in Range(InputRecords) :
      Count(RecordsOf(stdout), r) = Count(InputRecords, r)

(* ------------------------------- writer -------------------------------- *)
\* C15: standard output is written only by steps of the one writer task,
\* which is spawned once, by StdoutWriter::start; a step that takes, decides
\* or sends a record leaves the output and the writer's buffer as they are,
\* so no step writes for two parties.
C15_SingleWriter ==
  [][/\ stdout' # stdout =>
          /\ wpc \in {"recv", "write"} /\ wpc' \in {"recv", "done"}
          /\ futures' = futures /\ evalLog' = evalLog /\ sent' = sent
          /\ stdinPos' = stdinPos /\ listPos' = listPos
     /\ (futures' # futures \/ evalLog' # evalLog \/ sent' # sent) =>
          /\ stdout' = stdout /\ buffer' = buffer /\ wpc' = wpc
     /\ (wpc = "none" /\ wpc' # "none") => (pc = "writer" /\ wpc' = "recv")
     /\ wpc # "none" => wpc' # "none"
    ]_vars

\* C15 witness: the writer task has written to the output and holds the
\* next record to write while a future is in flight that has not been
\* polled yet.
C15_Witness ==
  /\ stdout # <<>> /\ wpc = "write"
  /\ \E u \in futures : u.st = "new"

\* C16: once a write of the writer task has failed, no Record line is
\* written or tried on the output any more, the end of the task included.
C16_NoAttemptAfterFailure ==
  writeFailed => (wpc = "done" /\ RecordsOf(lateAttempt) = <<>>)

\* C16 as the code has it: the write that fails ends the writer task, with
\* the receiver, the channel's content and the record in hand; from then on
\* the output does not change; the one thing tried on it after the failure
\* is the flush of the lines the buffer held before, when the buffer is
\* dropped.
C16_WriterStopsAfterFailure ==
  [][writeFailed' =>
       /\ wpc' = "done" /\ rxDropped' /\ queue' = <<>> /\ inhand' = None
       /\ buffer' = <<>>
       /\ stdout' = stdout
       /\ lateAttempt' = IF writeFailed THEN lateAttempt ELSE buffer
    ]_vars

\* C16 witness: the write of a record failed while the line of an earlier
\* record was in the buffer; the flush of the dropped buffer tried that
\* line, and the run has exited.
C16_Witness ==
  /\ writeFailed /\ RecordsOf(lateAttempt) # <<>> /\ pc = "exited"

(* ------------------------------- --not --------------------------------- *)
\* the record matches every regex that is configured
MatchesRegexes(f, meta) ==
  LET base == IF meta.location = <<>> THEN <<>>
              ELSE <<meta.location[Len(meta.location)]>>
      PathOk(reg) == \E i \in DOMAIN meta.location : meta.location[i] = reg
      BaseOk(reg) == \E i \in DOMAIN base : base[i] = reg
  IN Criterion(f.path_match, PathOk) /\ Criterion(f.basename_match, BaseOk)

\* C17: with --not and a regex configured, no record that matches every
\* configured regex is sent to the output, whatever size or time criteria
\* are configured with it.
C17_NotShowsOnlyNonMatching ==
  (filter.invert /\ (IsSome(filter.path_match) \/ IsSome(filter.basename_match))) =>
    \A e \in evalLog :
      (\E i \in 1..Len(sent) : sent[i] = ExportFromMeta(e.meta))
        => ~MatchesRegexes(filter, e.meta)

(* -------------------------------- modes -------------------------------- *)
\* C18: with a root no line of standard input is ever read, no error of
\* the header or of a line arises, and every record taken is an item of
\* the backend listing; without a root the backend and the file system are
\* never touched, no error of the root, the store or the listing arises,
\* and every record taken is the decoding of an input line after the first.
C18_ModesExclusive ==
  /\ IsSome(root) =>
       /\ stdinPos = 0 /\ "stdin" \notin io
       /\ result \notin {"MissingOrMalformedHeader", "DecodeError"}
       /\ \A e \in evalLog \cup futures :
            e.id \in 1..listPos /\ e.meta = listing[e.id]
  /\ ~IsSome(root) =>
       /\ listPos = 0 /\ "backend" \notin io /\ "fs" \notin io
       /\ result \notin {"InvalidRoot", "StoreError", "SourceError"}
       /\ \A e \in evalLog \cup futures :
            /\ e.id \in 2..stdinPos
            /\ IsSome(DecodeExport(stdin[e.id]))
            /\ e.meta = MetaFromExport(DecodeExport(stdin[e.id]).some)

\* C18 witness: a run with a root has exited with a record of the listing
\* on its output while standard input held lines, none of which was read.
C18_Witness ==
  /\ IsSome(root) /\ Len(stdin) > 1 /\ stdinPos = 0
  /\ pc = "exited" /\ Len(RecordsOf(stdout)) >= 1
  /\ listPos = Len(listing)

(* ----------------------- what reaches the output ----------------------- *)
\* the places of the source that hold a record, and the record the source
\* produces there, in its native form
SourceIds ==
  IF IsSome(root)
  THEN {i \in 1..Len(listing) : listing[i] # Bad}
  ELSE {i \in 2..Len(stdin) : IsSome(DecodeExport(stdin[i]))}
SourceRecord(i) ==
  IF IsSome(root) THEN listing[i]
  ELSE MetaFromExport(DecodeExport(stdin[i]).some)
\* a written record has the five field values of a source record
SameFields(r, m) ==
  /\ r.location = m.location /\ r.last_modified = m.last_modified
  /\ r.size = m.size /\ r.e_tag = m.e_tag /\ r.version = m.version

\* C19: in every state, each record written to the output is written at
\* most as many times as the source holds records with the same five field
\* values for which the conjunction of the configured criteria differs
\* from `invert`; so no record that failed the decision is written, none is
\* written more often than it occurs, and none with a changed field.
C19_WrittenWithinAccepted ==
  \A r \in Range(RecordsOf(stdout)) :
    Count(RecordsOf(stdout), r) <=
      Cardinality({i \in SourceIds :
                     /\ SameFields(r, SourceRecord(i))
                     /\ Conjunction(filter, SourceRecord(i), 0, 0) # filter.invert})

\* C19 witness: under a filter on path and size, a source of three records
\* holds an accepted record twice and a record that fails the filter; the
\* run has exited with the accepted record twice on the output.
C19_Witness ==
  /\ filter = [NoFilter EXCEPT !.path_match = Some("a"), !.max_size = Some(1)]
  /\ Cardinality(SourceIds) = 3
  /\ \E i \in SourceIds : SourceRecord(i).size = 2
  /\ pc = "exited" /\ Len(RecordsOf(stdout)) = 2
  /\ Count(RecordsOf(stdout), Export1) = 2

(* ----------------------------- termination ----------------------------- *)
\* C20: every run over a finite source exits, whether the consumer keeps
\* reading or closes the output; and a future that waits in send for a slot
\* of the full channel is released, by the writer task taking a record from
\* the channel or by its end.
C20_Terminates ==
  /\ <>(pc = "exited")
  /\ (waiters # <<>>) ~> (waiters = <<>>)

\* C20 witness: a future that went to wait in send on the full channel
\* still waits when the writer task has ended on a closed output.
C20_Witness ==
  /\ waiters # <<>> /\ rxDropped /\ writeFailed /\ pc = "stream"

====
